---- MODULE Spec2Model ----
(***************************************************************************)
(* Knee discovery (src/src/knee_discovery/knee_discovery.py).              *)
(*                                                                         *)
(* Numbers are exact integers:                                             *)
(*   - a metric (mAP) m is the integer 10000*m, so 0.01 is 100 and the     *)
(*     tolerance 1e-3 is 10;                                               *)
(*   - a degradation factor f of a table whose original image is W wide   *)
(*     is the integer f*FUnit(W) with FUnit(W) = 4*W, so the factor of a   *)
(*     square effective resolution of d pixels is 4*d, the midpoint of two *)
(*     such factors is an even integer and half a pixel is 2.              *)
(* The evaluator (eval.run_eval) and the elbow fit (kneed.KneeLocator) are *)
(* not part of the source file; the evaluator is modelled from the         *)
(* specification, the elbow fit as a choice among the filtered samples.    *)
(***************************************************************************)
EXTENDS Integers, Sequences, FiniteSets, TLC

\* None: no factor, no metric (factors and metrics are never negative)
None == -1

\* ------------------------------------------------------------------------
\* Program constants
\* ------------------------------------------------------------------------
desired_tolerance == 1000
mAP_tolerance == 10
max_iterations == 10
locate_tolerance == 1
sampled_tolerance == 10
noise_floor == 100

\* ------------------------------------------------------------------------
\* Bounds of the model
\* ------------------------------------------------------------------------
MaxKnees == 2
MaxSamples == 3
MaxDim == 4
MaxMedian == 3
MaxImages == 2
MaxCalls == 3

ClassNames == <<"car", "bike">>

\* pipeline configurations: image_size, search_resolution_range (lo, hi) and
\* search_resolution_step, the fractions as <<numerator, denominator>>
Configs ==
    { [image_size |-> 1024, lo |-> <<1, 2>>, hi |-> <<1, 1>>, step |-> <<1, 4>>],
      [image_size |-> 8192, lo |-> <<8190, 8192>>, hi |-> <<1, 1>>, step |-> <<1, 8192>>],
      [image_size |-> 8, lo |-> <<1, 2>>, hi |-> <<1, 1>>, step |-> <<1, 4>>] }

\* accuracy curves the evaluator can follow for one class
Curves == {"rising", "plateau", "cliff", "noise"}

\* ------------------------------------------------------------------------
\* Arithmetic helpers
\* ------------------------------------------------------------------------
Abs(x) == IF x < 0 THEN -x ELSE x

Min(a, b) == IF a < b THEN a ELSE b

Max(a, b) == IF a > b THEN a ELSE b

\* math.ceil(q * n) and math.floor(q * n) for a fraction q = <<num, den>>
CeilMul(q, n) == (q[1] * n + q[2] - 1) \div q[2]

FloorMul(q, n) == (q[1] * n) \div q[2]

FUnit(w) == 4 * w

\* np.isclose(a, b, atol): |a - b| <= atol + rtol * |b| with rtol = 1e-5;
\* a and b are factors in units of 1/unit, atol5 is atol * 1e5
IsClose(a, b, atol5, unit) ==
    Abs(a - b) * 100000 <= atol5 * unit + Abs(b)

\* ------------------------------------------------------------------------
\* Result table
\* ------------------------------------------------------------------------
\* one EvaluationRecord; degradation_factor is the STORED column
Row(c, ow, oh, ew, eh, m, f) ==
    [object_name |-> c,
     original_resolution_width |-> ow, original_resolution_height |-> oh,
     effective_resolution_width |-> ew, effective_resolution_height |-> eh,
     mAP |-> m, degradation_factor |-> f, knee |-> FALSE]

\* math.sqrt: the root of n rounded down to a whole number of units
RECURSIVE SqrtFrom(_, _)
SqrtFrom(n, r) == IF (r + 1) * (r + 1) > n THEN r ELSE SqrtFrom(n, r + 1)

calc_degradation_factor_WidthRatio(orig_res_w, orig_res_h, eff_res_w, eff_res_h) ==
    (FUnit(orig_res_w) * eff_res_w) \div orig_res_w

\* sqrt((eff_w / orig_w) * (eff_h / orig_h)) in units of 1/FUnit(orig_w),
\* rounded down to a whole number of units. For resolutions with
\* eff_w/orig_w = eff_h/orig_h (the sweep and the refiner scale both sides
\* of a square image by one factor) the root of the squared ratio is the
\* ratio itself.
calc_degradation_factor(orig_res_w, orig_res_h, eff_res_w, eff_res_h) ==
    IF eff_res_w * orig_res_h = eff_res_h * orig_res_w
    THEN (FUnit(orig_res_w) * eff_res_w) \div orig_res_w
    ELSE SqrtFrom((FUnit(orig_res_w) * FUnit(orig_res_w) * eff_res_w * eff_res_h)
                      \div (orig_res_w * orig_res_h), 0)

RowFactor(r) ==
    calc_degradation_factor(r.original_resolution_width, r.original_resolution_height,
                            r.effective_resolution_width, r.effective_resolution_height)

\* results_df[results_df['object_name'] == class_name]
ClassRows(df, c) == SelectSeq(df, LAMBDA r: r.object_name = c)

SeqToSet(s) == {s[i] : i \in 1..Len(s)}

\* ------------------------------------------------------------------------
\* Evaluator (eval.run_eval): records, for every class, the metric at one
\* effective resolution; an existing record is updated, not duplicated
\* ------------------------------------------------------------------------
Metric(cv, d, n) ==
    CASE cv = "rising"  -> 1000 + (8000 * d) \div n
      [] cv = "plateau" -> IF 4 * d >= 3 * n THEN 9000 ELSE 50
      [] cv = "cliff"   -> IF 2 * d > n THEN 1000 + (8000 * d) \div n ELSE 0
      [] OTHER          -> IF d % 2 = 0 THEN 100 ELSE 0

HasRecord(df, c, ew, eh) ==
    \E i \in 1..Len(df) : /\ df[i].object_name = c
                          /\ df[i].effective_resolution_width = ew
                          /\ df[i].effective_resolution_height = eh

RECURSIVE run_eval(_, _, _, _, _, _, _)
run_eval(df, cvs, ow, oh, ew, eh, k) ==
    IF k > Len(ClassNames) THEN df
    ELSE LET c == ClassNames[k]
             m == Metric(cvs[c], ew, ow)
             upd == [i \in 1..Len(df) |->
                        IF /\ df[i].object_name = c
                           /\ df[i].effective_resolution_width = ew
                           /\ df[i].effective_resolution_height = eh
                        THEN [df[i] EXCEPT !.mAP = m]
                        ELSE df[i]]
             next == IF HasRecord(df, c, ew, eh) THEN upd
                     ELSE Append(df, Row(c, ow, oh, ew, eh, m,
                                         calc_degradation_factor(ow, oh, ew, eh)))
         IN run_eval(next, cvs, ow, oh, ew, eh, k + 1)

\* ------------------------------------------------------------------------
\* calculate_knee
\* ------------------------------------------------------------------------
\* x = [d for i, d in enumerate(degradation_factor_list) if mAP_values[i] > 0.01]
FitX(rows) ==
    LET kept == SelectSeq(rows, LAMBDA r: r.mAP > noise_floor)
    IN [i \in 1..Len(kept) |-> RowFactor(kept[i])]

FitY_Inclusive(rows) ==
    LET kept == SelectSeq(rows, LAMBDA r: r.mAP >= noise_floor)
    IN [i \in 1..Len(kept) |-> kept[i].mAP]

\* y = [m for m in mAP_values if m > 0.01]
FitY(rows) ==
    LET kept == SelectSeq(rows, LAMBDA r: r.mAP > noise_floor)
    IN [i \in 1..Len(kept) |-> kept[i].mAP]

\* the (factor, metric) points handed to KneeLocator
FitInput(rows) == [x |-> FitX(rows), y |-> FitY(rows)]

RECURSIVE SortedSeq(_)
SortedSeq(S) ==
    IF S = {} THEN <<>>
    ELSE LET lo == CHOOSE v \in S : \A u \in S : v <= u
         IN <<lo>> \o SortedSeq(S \ {lo})

\* a table with every metric at or below the floor yields its lowest factor
calculate_knee_PickMinimum(rows, det) ==
    IF \A i \in 1..Len(rows) : rows[i].mAP <= noise_floor
    THEN LET lo == CHOOSE i \in 1..Len(rows) :
                       \A j \in 1..Len(rows) : RowFactor(rows[i]) <= RowFactor(rows[j])
         IN [x_list |-> <<RowFactor(rows[lo])>>, y_list |-> <<rows[lo].mAP>>,
             events |-> <<>>]
    ELSE LET in == FitInput(rows)
         IN IF Len(in.x) = 0 \/ Len(in.y) = 0
            THEN [x_list |-> <<>>, y_list |-> <<>>, events |-> <<>>]
            ELSE LET all_knees == {in.x[det[i]] : i \in 1..Len(det)}
                     all_knees_y == [i \in 1..Len(det) |-> in.y[det[i]]]
                     x_out_list == SortedSeq(all_knees)
                     y_out_list == all_knees_y
                 IN [x_list |-> x_out_list, y_list |-> y_out_list,
                     events |-> [i \in 1..Len(x_out_list) |->
                                    <<x_out_list[i], y_out_list[i]>>]]

\* det is the answer of the elbow fit: the positions, in the order of
\* detection, of the knees among the points it was given
calculate_knee(rows, det) ==
    IF \A i \in 1..Len(rows) : rows[i].mAP <= noise_floor
    THEN [x_list |-> <<>>, y_list |-> <<>>, events |-> <<>>]
    ELSE LET in == FitInput(rows)
         IN IF Len(in.x) = 0 \/ Len(in.y) = 0
            THEN [x_list |-> <<>>, y_list |-> <<>>, events |-> <<>>]
            ELSE LET all_knees == {in.x[det[i]] : i \in 1..Len(det)}
                     all_knees_y == [i \in 1..Len(det) |-> in.y[det[i]]]
                     x_out_list == SortedSeq(all_knees)
                     y_out_list == all_knees_y
                 IN [x_list |-> x_out_list, y_list |-> y_out_list,
                     events |-> [i \in 1..Len(x_out_list) |->
                                    <<x_out_list[i], y_out_list[i]>>]]

\* the primary knee candidate: x_list[0], or None
PrimaryKnee(ck) ==
    IF Len(ck.x_list) > 0 /\ Len(ck.y_list) > 0 THEN ck.x_list[1] ELSE None

\* answers of KneeLocator explored in a run: no knee, or one knee at the
\* lowest or at the highest of the points it was given, or at their median
\* when there are at most MaxMedian points
KneeLocator(rows) ==
    LET x == FitInput(rows).x
        I == 1..Len(x)
        below(j) == Cardinality({k \in I : x[k] < x[j]})
    IN {<<>>} \cup {<<i>> : i \in {j \in I : \/ below(j) = 0
                                            \/ /\ Len(x) <= MaxMedian
                                               /\ below(j) = Len(x) \div 2
                                            \/ below(j) = Len(x) - 1}}

\* ------------------------------------------------------------------------
\* State of one run of run_knee_discovery
\* ------------------------------------------------------------------------
VARIABLES
    config,          \* pipeline configuration (image size, sweep range, step)
    binary,          \* ctxt.knee_discovery_search_algorithm == 'binary'
    cache_results,   \* ctxt.cache_results: the table is cached in memory
    curve,           \* the accuracy curve of every class (evaluator)
    stale,           \* the stored factor column of the persisted table is stale
    store,           \* the table kept by the evaluator (cache or file)
    file_exists,     \* os.path.exists(eval_results_filename)
    results_df,
    results_class_df,
    pc,
    ci,              \* position in class_names
    knee_degradation_factor,
    new_knee_degradation_factor,
    old_knee_degradation_factor,
    new_knee_mAP,
    old_knee_mAP,
    iteration,
    exit,            \* how the refinement of each class ended
    calls,           \* degrade_images + run_eval invocations of the refiner, per class
    knee_events,     \* update_knee_results notifications, per class
    prior_knee,      \* the knee factor held before the current one, per class
    resample,        \* the refiner sampled a resolution that had a record
    last_mid,        \* new_degradation of the latest iteration, if it got there
    last_size,       \* the resolution sampled by the latest iteration, if any
    missing_seen,    \* the results file was found missing
    work_after_missing, \* detector or sampler calls after that
    \* calculate_knee applied to one class table and to a variant of it
    k_pc, k_rows, k_variant, k_det, k_out, k_out_variant,
    \* the refiner's conversion of a factor to a resolution
    r_pc, r_factor, r_width, r_height, r_out,
    \* calc_degradation_factor applied to one pair of resolutions
    f_pc, f_ow, f_oh, f_ew, f_eh, f_out,
    \* the degrade_images calls of one run
    d_pc,
    d_kind,                  \* what every baseline image is like
    d_dir,                   \* the contents of the degraded directories
    d_none,                  \* ctxt.val_image_filename_set is None
    val_image_filename_set,  \* ctxt.val_image_filename_set otherwise
    d_calls,                 \* number of calls made
    d_size,                  \* degraded_image_size of the latest call
    d_in,                    \* corrupted_counter passed to the latest call
    d_ret,                   \* <<num_images, corrupted_counter>> it returned
    d_files,                 \* val_image_filenames of the latest call
    d_failed,                \* images that raised OSError in some call
    d_counted,               \* times every image was added to a counter
    d_writes                 \* times a degraded image was written, per directory

run_vars == <<config, binary, cache_results, curve, stale, store, file_exists,
              results_df, results_class_df, pc, ci, knee_degradation_factor,
              new_knee_degradation_factor, old_knee_degradation_factor,
              new_knee_mAP, old_knee_mAP, iteration, exit, calls, knee_events,
              prior_knee, resample, last_mid, last_size,
              missing_seen, work_after_missing>>

knee_vars == <<k_pc, k_rows, k_variant, k_det, k_out, k_out_variant>>

res_vars == <<r_pc, r_factor, r_width, r_height, r_out>>

factor_vars == <<f_pc, f_ow, f_oh, f_ew, f_eh, f_out>>

degrade_vars == <<d_pc, d_kind, d_dir, d_none, val_image_filename_set, d_calls,
                  d_size, d_in, d_ret, d_files, d_failed, d_counted, d_writes>>

aux_vars == <<factor_vars, degrade_vars>>

vars == <<run_vars, knee_vars, res_vars, aux_vars>>

\* the variables of the pure-function specifications at rest
KneeIdle ==
    /\ k_pc = "idle" /\ k_rows = <<>> /\ k_variant = <<>>
    /\ k_det = <<>> /\ k_out = <<>> /\ k_out_variant = <<>>

ResIdle ==
    /\ r_pc = "idle" /\ r_factor = 0 /\ r_width = 0 /\ r_height = 0 /\ r_out = <<>>

FactorIdle ==
    /\ f_pc = "idle" /\ f_ow = 0 /\ f_oh = 0 /\ f_ew = 0 /\ f_eh = 0 /\ f_out = None

DegradeIdle ==
    /\ d_pc = "idle" /\ d_kind = <<>> /\ d_dir = <<>> /\ d_none = TRUE
    /\ val_image_filename_set = {} /\ d_calls = 0 /\ d_size = "none"
    /\ d_in = 0 /\ d_ret = <<0, 0>> /\ d_files = {} /\ d_failed = {}
    /\ d_counted = <<>> /\ d_writes = <<>>

AuxIdle == FactorIdle /\ DegradeIdle

Classes == SeqToSet(ClassNames)

\* the curves of the classes of one run: at most one class follows a curve
\* on which the refinement runs long
CurveAssignments ==
    {cv \in [Classes -> Curves] :
        \E c \in Classes : \A d \in Classes \ {c} : cv[d] \in {"plateau", "noise"}}

Unit == FUnit(config.image_size)

Init ==
    /\ KneeIdle
    /\ ResIdle
    /\ AuxIdle
    /\ config \in Configs
    /\ binary \in BOOLEAN
    /\ cache_results \in BOOLEAN
    /\ curve \in CurveAssignments
    /\ stale \in BOOLEAN
    /\ store = <<>>
    /\ file_exists = FALSE
    /\ results_df = <<>>
    /\ results_class_df = <<>>
    /\ pc = "sweep"
    /\ ci = 1
    /\ knee_degradation_factor = None
    /\ new_knee_degradation_factor = None
    /\ old_knee_degradation_factor = None
    /\ new_knee_mAP = None
    /\ old_knee_mAP = None
    /\ iteration = 0
    /\ exit = [c \in Classes |-> "none"]
    /\ calls = [c \in Classes |-> 0]
    /\ knee_events = [c \in Classes |-> 0]
    /\ prior_knee = [c \in Classes |-> None]
    /\ resample = FALSE
    /\ last_mid = None
    /\ last_size = <<>>
    /\ missing_seen = FALSE
    /\ work_after_missing = 0

\* ------------------------------------------------------------------------
\* run_eval_on_degraded_images: the coarse sweep
\* ------------------------------------------------------------------------
\* range(long_low_range, long_high_range, step)
RECURSIVE SweepRange(_, _, _)
SweepRange(lo, hi, step) ==
    IF lo >= hi THEN <<>> ELSE <<lo>> \o SweepRange(lo + step, hi, step)

SweepResolutions(cfg) ==
    SweepRange(CeilMul(cfg.lo, cfg.image_size),
               CeilMul(cfg.hi, cfg.image_size) + 1,
               FloorMul(cfg.step, cfg.image_size))

RECURSIVE SweepTable(_, _, _, _, _)
SweepTable(df, cvs, n, res, k) ==
    IF k > Len(res) THEN df
    ELSE SweepTable(run_eval(df, cvs, n, n, res[k], res[k], 1), cvs, n, res, k + 1)

\* a persisted table whose degradation_factor column was written for other
\* resolutions: the column of the highest resolution is half a pixel off
StaleColumn(df, top) ==
    [i \in 1..Len(df) |->
        IF df[i].effective_resolution_width = top
        THEN [df[i] EXCEPT !.degradation_factor = @ + 2]
        ELSE df[i]]

run_eval_on_degraded_images ==
    /\ pc = "sweep"
    /\ LET res == SweepResolutions(config)
           df == SweepTable(<<>>, curve, config.image_size, res, 1)
       IN store' = IF stale THEN StaleColumn(df, res[Len(res)]) ELSE df
    /\ file_exists' \in (IF cache_results THEN {TRUE} ELSE BOOLEAN)
    /\ pc' = "load"
    /\ UNCHANGED <<config, binary, cache_results, curve, stale, results_df,
                   results_class_df, ci, knee_degradation_factor,
                   new_knee_degradation_factor, old_knee_degradation_factor,
                   new_knee_mAP, old_knee_mAP, iteration, exit, calls,
                   knee_events, prior_knee, resample, last_mid, last_size,
                   missing_seen,
                   work_after_missing>>
    /\ UNCHANGED <<knee_vars, res_vars, aux_vars>>

\* ------------------------------------------------------------------------
\* run_knee_discovery: loading the table
\* ------------------------------------------------------------------------
ClearKnee(df) == [i \in 1..Len(df) |-> [df[i] EXCEPT !.knee = FALSE]]

LoadResults ==
    /\ pc = "load"
    /\ IF cache_results \/ file_exists
       THEN /\ results_df' = ClearKnee(store)
            /\ store' = IF cache_results THEN ClearKnee(store) ELSE store
            /\ pc' = "class"
            /\ UNCHANGED missing_seen
       ELSE /\ pc' = "aborted"
            /\ missing_seen' = TRUE
            /\ UNCHANGED <<results_df, store>>
    /\ UNCHANGED <<config, binary, cache_results, curve, stale, file_exists,
                   results_class_df, ci, knee_degradation_factor,
                   new_knee_degradation_factor, old_knee_degradation_factor,
                   new_knee_mAP, old_knee_mAP, iteration, exit, calls,
                   knee_events, prior_knee, resample, last_mid, last_size,
                   work_after_missing>>
    /\ UNCHANGED <<knee_vars, res_vars, aux_vars>>

\* ------------------------------------------------------------------------
\* run_knee_discovery: one class
\* ------------------------------------------------------------------------
Bump(f, c, n) == [f EXCEPT ![c] = @ + n]

SearchSelected_Always == TRUE

\* ctxt.knee_discovery_search_algorithm == 'binary'
SearchSelected == binary

ClassStart ==
    /\ pc = "class"
    /\ LET c == ClassNames[ci]
           rows == ClassRows(results_df, c)
       IN /\ results_class_df' = rows
          /\ \E det \in KneeLocator(rows) :
                LET ck == calculate_knee(rows, det)
                IN /\ knee_degradation_factor' = PrimaryKnee(ck)
                   /\ knee_events' = Bump(knee_events, c, Len(ck.events))
                   /\ new_knee_degradation_factor' =
                          IF SearchSelected THEN PrimaryKnee(ck) ELSE new_knee_degradation_factor
    /\ old_knee_degradation_factor' = IF SearchSelected THEN None ELSE old_knee_degradation_factor
    /\ new_knee_mAP' = IF SearchSelected THEN None ELSE new_knee_mAP
    /\ old_knee_mAP' = IF SearchSelected THEN None ELSE old_knee_mAP
    /\ iteration' = IF SearchSelected THEN 0 ELSE iteration
    /\ pc' = IF SearchSelected THEN "loop" ELSE "mark"
    /\ work_after_missing' = work_after_missing + (IF missing_seen THEN 1 ELSE 0)
    /\ UNCHANGED <<config, binary, cache_results, curve, stale, store,
                   file_exists, results_df, ci, exit, calls, prior_knee,
                   resample, last_mid, last_size,
                   missing_seen>>
    /\ UNCHANGED <<knee_vars, res_vars, aux_vars>>

LoopCondition_NoCap ==
    /\ new_knee_degradation_factor # None
    /\ IF old_knee_degradation_factor = None THEN TRUE
       ELSE ~IsClose(new_knee_degradation_factor, old_knee_degradation_factor,
                     desired_tolerance, Unit)

LoopCondition_Exact ==
    /\ iteration < max_iterations
    /\ new_knee_degradation_factor # None
    /\ IF old_knee_degradation_factor = None THEN TRUE
       ELSE ~IsClose(new_knee_degradation_factor, old_knee_degradation_factor,
                     locate_tolerance, Unit)

\* the condition of the while loop
LoopCondition ==
    /\ iteration < max_iterations
    /\ new_knee_degradation_factor # None
    /\ IF old_knee_degradation_factor = None THEN TRUE
       ELSE ~IsClose(new_knee_degradation_factor, old_knee_degradation_factor,
                     desired_tolerance, Unit)

\* rows in the order of np.argsort(degradation_factors)
RECURSIVE SortRows(_)
SortRows(rows) ==
    IF Len(rows) = 0 THEN <<>>
    ELSE LET I == 1..Len(rows)
             k == CHOOSE i \in I : \A j \in I :
                      \/ rows[i].degradation_factor < rows[j].degradation_factor
                      \/ /\ rows[i].degradation_factor = rows[j].degradation_factor
                         /\ i <= j
             rest == [j \in 1..(Len(rows) - 1) |-> IF j < k THEN rows[j] ELSE rows[j + 1]]
         IN <<rows[k]>> \o SortRows(rest)

\* np.where(np.isclose(degradation_factors_sorted, knee, atol=1e-5))[0]
KneeIndex(sorted, knee, unit) ==
    {i \in 1..Len(sorted) :
        IsClose(sorted[i].degradation_factor, knee, locate_tolerance, unit)}

SetMin(S) == CHOOSE v \in S : \A u \in S : v <= u

ChooseSide_TieLeft(sorted, ki, knee) ==
    LET has_left == ki > 1
        has_right == ki < Len(sorted)
        delta_mAP_left == IF has_left THEN Abs(sorted[ki].mAP - sorted[ki - 1].mAP) ELSE 0
        delta_mAP_right == IF has_right THEN Abs(sorted[ki].mAP - sorted[ki + 1].mAP) ELSE 0
    IN IF delta_mAP_left >= delta_mAP_right /\ has_left
       THEN <<sorted[ki - 1].degradation_factor, knee>>
       ELSE IF has_right
            THEN <<knee, sorted[ki + 1].degradation_factor>>
            ELSE <<>>

\* the side to bisect: <<degradation1, degradation2>>, or <<>> when the
\* refinement cannot go on
ChooseSide(sorted, ki, knee) ==
    LET has_left == ki > 1
        has_right == ki < Len(sorted)
        delta_mAP_left == IF has_left THEN Abs(sorted[ki].mAP - sorted[ki - 1].mAP) ELSE 0
        delta_mAP_right == IF has_right THEN Abs(sorted[ki].mAP - sorted[ki + 1].mAP) ELSE 0
    IN IF delta_mAP_left > delta_mAP_right /\ has_left
       THEN <<sorted[ki - 1].degradation_factor, knee>>
       ELSE IF has_right
            THEN <<knee, sorted[ki + 1].degradation_factor>>
            ELSE <<>>

AlreadyEvaluated_Exact(rows, new_degradation, unit) ==
    \E i \in 1..Len(rows) : rows[i].degradation_factor = new_degradation

\* np.any(np.isclose(degradation_factors, new_degradation, atol=1e-4))
AlreadyEvaluated(rows, new_degradation, unit) ==
    \E i \in 1..Len(rows) :
        IsClose(rows[i].degradation_factor, new_degradation, sampled_tolerance, unit)

\* round(num / den), halves to the even neighbour
RoundHalfEven(num, den) ==
    LET q == num \div den
        r == num % den
    IN IF 2 * r < den THEN q
       ELSE IF 2 * r > den THEN q + 1
       ELSE IF q % 2 = 0 THEN q ELSE q + 1

DegradedSize_Round(new_degradation, width, unit) ==
    Max(1, Min(width, RoundHalfEven(new_degradation * width, unit)))

\* max(1, min(int(width), int(new_degradation * width)))
DegradedSize(new_degradation, width, unit) ==
    Max(1, Min(width, (new_degradation * width) \div unit))

mAPConverged_AssignFirst(m, prev_mAP) ==
    Abs(m - m) < mAP_tolerance

\* old_knee_mAP is not None and abs(new_knee_mAP - old_knee_mAP) < mAP_tolerance
mAPConverged(m, prev_mAP) ==
    prev_mAP # None /\ Abs(m - prev_mAP) < mAP_tolerance

\* one pass through the body of the while loop up to the sampling
LoopBody(rows, knee, prev_mAP, unit) ==
    LET sorted == SortRows(rows)
        knee_index == KneeIndex(sorted, knee, unit)
    IN IF knee_index = {}
       THEN [kind |-> "stuck", new_mAP |-> new_knee_mAP, old_mAP |-> prev_mAP]
       ELSE LET ki == SetMin(knee_index)
                m == sorted[ki].mAP
            IN IF mAPConverged(m, prev_mAP)
               THEN [kind |-> "converged_mAP", new_mAP |-> m, old_mAP |-> prev_mAP]
               ELSE LET side == ChooseSide(sorted, ki, knee)
                    IN IF side = <<>>
                       THEN [kind |-> "no_refinement", new_mAP |-> m, old_mAP |-> m]
                       ELSE LET new_degradation == (side[1] + side[2]) \div 2
                            IN IF AlreadyEvaluated(rows, new_degradation, unit)
                               THEN [kind |-> "already", new_mAP |-> m, old_mAP |-> m,
                                     new_degradation |-> new_degradation]
                               ELSE [kind |-> "sample", new_mAP |-> m, old_mAP |-> m,
                                     new_degradation |-> new_degradation,
                                     degraded_width |->
                                        DegradedSize(new_degradation,
                                            rows[1].original_resolution_width, unit),
                                     degraded_height |->
                                        DegradedSize(new_degradation,
                                            rows[1].original_resolution_height, unit)]

RefineIteration ==
    /\ pc = "loop"
    /\ LoopCondition
    /\ LET c == ClassNames[ci]
           b == LoopBody(results_class_df, new_knee_degradation_factor, old_knee_mAP, Unit)
       IN /\ iteration' = iteration + 1
          /\ old_knee_degradation_factor' = new_knee_degradation_factor
          /\ prior_knee' = [prior_knee EXCEPT ![c] = old_knee_degradation_factor]
          /\ new_knee_mAP' = b.new_mAP
          /\ old_knee_mAP' = b.old_mAP
          /\ last_mid' = IF b.kind \in {"already", "sample"}
                          THEN b.new_degradation ELSE None
          /\ last_size' = IF b.kind = "sample"
                           THEN <<b.degraded_width, b.degraded_height>> ELSE <<>>
          /\ IF b.kind # "sample"
             THEN /\ pc' = "mark"
                  /\ exit' = [exit EXCEPT ![c] = b.kind]
                  /\ UNCHANGED <<store, file_exists, results_df, results_class_df,
                                 new_knee_degradation_factor, calls, knee_events,
                                 resample, missing_seen, work_after_missing>>
             ELSE LET w == b.degraded_width
                      h == b.degraded_height
                      n == results_class_df[1].original_resolution_width
                      nh == results_class_df[1].original_resolution_height
                      written == run_eval(store, curve, n, nh, w, h, 1)
                  IN /\ calls' = Bump(calls, c, 1)
                     /\ resample' = (resample \/ HasRecord(results_class_df, c, w, h))
                     /\ store' = written
                     /\ file_exists' \in (IF cache_results THEN {file_exists} ELSE BOOLEAN)
                     /\ IF cache_results \/ file_exists'
                        THEN /\ results_df' = written
                             /\ results_class_df' = ClassRows(written, c)
                             /\ \E det \in KneeLocator(ClassRows(written, c)) :
                                   LET ck == calculate_knee(ClassRows(written, c), det)
                                   IN /\ new_knee_degradation_factor' = PrimaryKnee(ck)
                                      /\ knee_events' = Bump(knee_events, c, Len(ck.events))
                             /\ pc' = "loop"
                             /\ work_after_missing' =
                                    work_after_missing + (IF missing_seen THEN 2 ELSE 0)
                             /\ UNCHANGED <<exit, missing_seen>>
                        ELSE /\ pc' = "mark"
                             /\ exit' = [exit EXCEPT ![c] = "file_missing"]
                             /\ missing_seen' = TRUE
                             /\ work_after_missing' =
                                    work_after_missing + (IF missing_seen THEN 1 ELSE 0)
                             /\ UNCHANGED <<results_df, results_class_df,
                                            new_knee_degradation_factor, knee_events>>
    /\ UNCHANGED <<config, binary, cache_results, curve, stale, ci,
                   knee_degradation_factor>>
    /\ UNCHANGED <<knee_vars, res_vars, aux_vars>>

\* ------------------------------------------------------------------------
\* run_knee_discovery: marking the knee of the class
\* ------------------------------------------------------------------------
MarkRows_Wide(df, class_df, c, knee, unit) ==
    [i \in 1..Len(df) |->
        IF /\ df[i].object_name = c
           /\ \E j \in 1..Len(class_df) :
                 /\ class_df[j].effective_resolution_width = df[i].effective_resolution_width
                 /\ class_df[j].effective_resolution_height = df[i].effective_resolution_height
                 /\ IsClose(class_df[j].degradation_factor, knee, desired_tolerance, unit)
        THEN [df[i] EXCEPT !.knee = TRUE]
        ELSE df[i]]

MarkRows_Computed(df, class_df, c, knee, unit) ==
    [i \in 1..Len(df) |->
        IF /\ df[i].object_name = c
           /\ \E j \in 1..Len(class_df) :
                 /\ class_df[j].effective_resolution_width = df[i].effective_resolution_width
                 /\ class_df[j].effective_resolution_height = df[i].effective_resolution_height
                 /\ IsClose(RowFactor(class_df[j]), knee, locate_tolerance, unit)
        THEN [df[i] EXCEPT !.knee = TRUE]
        ELSE df[i]]

\* results_df.loc[df.index, 'knee'] = True for the rows df of results_class_df
\* whose stored factor is close to the knee
MarkRows(df, class_df, c, knee, unit) ==
    [i \in 1..Len(df) |->
        IF /\ df[i].object_name = c
           /\ \E j \in 1..Len(class_df) :
                 /\ class_df[j].effective_resolution_width = df[i].effective_resolution_width
                 /\ class_df[j].effective_resolution_height = df[i].effective_resolution_height
                 /\ IsClose(class_df[j].degradation_factor, knee, locate_tolerance, unit)
        THEN [df[i] EXCEPT !.knee = TRUE]
        ELSE df[i]]

\* results_df.loc[results_df['object_name'] == class_name, 'knee'] = False
ClearClass(df, c) ==
    [i \in 1..Len(df) |->
        IF df[i].object_name = c THEN [df[i] EXCEPT !.knee = FALSE] ELSE df[i]]

KneeToMark_LastNonNull ==
    IF ~SearchSelected THEN knee_degradation_factor
    ELSE IF new_knee_degradation_factor # None THEN new_knee_degradation_factor
    ELSE old_knee_degradation_factor

\* the factor looked up for marking: new_knee_degradation_factor after the
\* loop, knee_degradation_factor when no search algorithm is set
KneeToMark ==
    IF SearchSelected THEN new_knee_degradation_factor ELSE knee_degradation_factor

MarkKnee ==
    /\ \/ pc = "mark"
       \/ pc = "loop" /\ ~LoopCondition
    /\ LET c == ClassNames[ci]
           knee == KneeToMark
           cleared == IF SearchSelected THEN ClearClass(results_df, c) ELSE results_df
           marked == IF knee # None
                     THEN MarkRows(cleared, results_class_df, c, knee, Unit)
                     ELSE cleared
       IN /\ results_df' = marked
          /\ store' = IF cache_results THEN marked ELSE store
          /\ exit' = IF pc = "loop"
                     THEN [exit EXCEPT ![c] =
                              IF new_knee_degradation_factor = None THEN "no_knee"
                              ELSE IF iteration >= max_iterations THEN "capped"
                              ELSE "converged_factor"]
                     ELSE IF SearchSelected THEN exit ELSE [exit EXCEPT ![c] = "direct"]
    /\ ci' = ci + 1
    /\ pc' = IF ci < Len(ClassNames) THEN "class" ELSE "save"
    /\ UNCHANGED <<config, binary, cache_results, curve, stale, file_exists,
                   results_class_df, knee_degradation_factor,
                   new_knee_degradation_factor, old_knee_degradation_factor,
                   new_knee_mAP, old_knee_mAP, iteration, calls, knee_events,
                   prior_knee, resample, last_mid, last_size,
                   missing_seen, work_after_missing>>
    /\ UNCHANGED <<knee_vars, res_vars, aux_vars>>

\* results_df.to_csv(...); ctxt.results_cache_df = results_df.copy()
SaveResults ==
    /\ pc = "save"
    /\ store' = results_df
    /\ file_exists' = TRUE
    /\ pc' = "done"
    /\ UNCHANGED <<config, binary, cache_results, curve, stale, results_df,
                   results_class_df, ci, knee_degradation_factor,
                   new_knee_degradation_factor, old_knee_degradation_factor,
                   new_knee_mAP, old_knee_mAP, iteration, exit, calls,
                   knee_events, prior_knee, resample, last_mid, last_size,
                   missing_seen,
                   work_after_missing>>
    /\ UNCHANGED <<knee_vars, res_vars, aux_vars>>

Next ==
    \/ run_eval_on_degraded_images
    \/ LoadResults
    \/ ClassStart
    \/ RefineIteration
    \/ MarkKnee
    \/ SaveResults

Spec == Init /\ [][Next]_vars

TypeOK ==
    /\ pc \in {"sweep", "load", "class", "loop", "mark", "save", "done", "aborted"}
    /\ iteration \in 0..(max_iterations + 1)

\* ------------------------------------------------------------------------
\* calculate_knee on one class table and on a variant of the table that
\* differs from it in samples at or below the noise floor only
\* ------------------------------------------------------------------------
KneeResolutions == {2, 4, 8}

KneeMetrics == {0, noise_floor, 3000, 9000}

KneeRow(d, m) == Row("car", 8, 8, d, d, m, calc_degradation_factor(8, 8, d, d))

\* class tables of at most n rows, one row per resolution
RECURSIVE KneeTables(_)
KneeTables(n) ==
    IF n = 0 THEN {<<>>}
    ELSE LET shorter == KneeTables(n - 1)
         IN shorter \cup
            {Append(t, KneeRow(d, m)) :
                t \in {u \in shorter : Len(u) = n - 1},
                d \in KneeResolutions, m \in KneeMetrics}

Resolutions(t) == {t[i].effective_resolution_width : i \in 1..Len(t)}

DistinctResolutions(t) == Cardinality(Resolutions(t)) = Len(t)

\* the answers the elbow fit can give for the points x: at most MaxKnees
\* positions, in the order of detection
RECURSIVE Detections(_, _)
Detections(x, n) ==
    IF n = 0 THEN {<<>>}
    ELSE LET shorter == Detections(x, n - 1)
         IN shorter \cup
            {Append(d, i) : d \in {e \in shorter : Len(e) = n - 1},
                            i \in 1..Len(x)} 

DistinctDetections(x) ==
    {d \in Detections(x, MaxKnees) :
        \A i, j \in 1..Len(d) : i # j => d[i] # d[j]}

InsertAt(t, p, r) ==
    [i \in 1..(Len(t) + 1) |-> IF i < p THEN t[i] ELSE IF i = p THEN r ELSE t[i - 1]]

RemoveAt(t, p) ==
    [i \in 1..(Len(t) - 1) |-> IF i < p THEN t[i] ELSE t[i + 1]]

KneeInit ==
    /\ k_pc = "input"
    /\ k_rows \in {t \in KneeTables(MaxSamples) : Len(t) > 0 /\ DistinctResolutions(t)}
    /\ k_variant = k_rows
    /\ k_det = <<>>
    /\ k_out = <<>>
    /\ k_out_variant = <<>>
    /\ ResIdle
    /\ AuxIdle
    /\ config \in {cfg \in Configs : cfg.image_size = 8}
    /\ binary = TRUE
    /\ cache_results = TRUE
    /\ curve = [c \in Classes |-> "noise"]
    /\ stale = FALSE
    /\ store = <<>>
    /\ file_exists = FALSE
    /\ results_df = <<>>
    /\ results_class_df = <<>>
    /\ pc = "idle"
    /\ ci = 1
    /\ knee_degradation_factor = None
    /\ new_knee_degradation_factor = None
    /\ old_knee_degradation_factor = None
    /\ new_knee_mAP = None
    /\ old_knee_mAP = None
    /\ iteration = 0
    /\ exit = [c \in Classes |-> "none"]
    /\ calls = [c \in Classes |-> 0]
    /\ knee_events = [c \in Classes |-> 0]
    /\ prior_knee = [c \in Classes |-> None]
    /\ resample = FALSE
    /\ last_mid = None
    /\ last_size = <<>>
    /\ missing_seen = FALSE
    /\ work_after_missing = 0

\* the variant gains a sample at or below the noise floor
AddNoiseSample ==
    /\ k_pc = "input"
    /\ Len(k_variant) < MaxSamples
    /\ \E d \in KneeResolutions \ Resolutions(k_variant),
          m \in {v \in KneeMetrics : v <= noise_floor},
          p \in 1..(Len(k_variant) + 1) :
            k_variant' = InsertAt(k_variant, p, KneeRow(d, m))
    /\ UNCHANGED <<k_pc, k_rows, k_det, k_out, k_out_variant, run_vars, res_vars, aux_vars>>

\* the variant loses a sample at or below the noise floor
DropNoiseSample ==
    /\ k_pc = "input"
    /\ \E p \in 1..Len(k_variant) :
          /\ k_variant[p].mAP <= noise_floor
          /\ k_variant' = RemoveAt(k_variant, p)
    /\ UNCHANGED <<k_pc, k_rows, k_det, k_out, k_out_variant, run_vars, res_vars, aux_vars>>

\* calculate_knee on both tables; the elbow fit is a function of its input
DetectKnees ==
    /\ k_pc = "input"
    /\ \E det \in DistinctDetections(FitX(k_rows)),
          det2 \in DistinctDetections(FitX(k_variant)) :
            /\ FitInput(k_variant) = FitInput(k_rows) => det2 = det
            /\ k_det' = det
            /\ k_out' = calculate_knee(k_rows, det)
            /\ k_out_variant' = calculate_knee(k_variant, det2)
    /\ k_pc' = "done"
    /\ UNCHANGED <<k_rows, k_variant, run_vars, res_vars, aux_vars>>

KneeNext == AddNoiseSample \/ DropNoiseSample \/ DetectKnees

SpecKnee == KneeInit /\ [][KneeNext]_vars

\* ------------------------------------------------------------------------
\* The refiner's conversion of a midpoint factor to a resolution
\* ------------------------------------------------------------------------
ResInit ==
    /\ r_pc = "input"
    /\ r_width \in 1..MaxDim
    /\ r_height \in 1..MaxDim
    /\ r_factor \in 1..(FUnit(MaxDim) + 2)
    /\ r_factor <= FUnit(r_width) + 2
    /\ r_out = <<>>
    /\ KneeIdle
    /\ AuxIdle
    /\ config \in {cfg \in Configs : cfg.image_size = 8}
    /\ binary = TRUE
    /\ cache_results = TRUE
    /\ curve = [c \in Classes |-> "noise"]
    /\ stale = FALSE
    /\ store = <<>>
    /\ file_exists = FALSE
    /\ results_df = <<>>
    /\ results_class_df = <<>>
    /\ pc = "idle"
    /\ ci = 1
    /\ knee_degradation_factor = None
    /\ new_knee_degradation_factor = None
    /\ old_knee_degradation_factor = None
    /\ new_knee_mAP = None
    /\ old_knee_mAP = None
    /\ iteration = 0
    /\ exit = [c \in Classes |-> "none"]
    /\ calls = [c \in Classes |-> 0]
    /\ knee_events = [c \in Classes |-> 0]
    /\ prior_knee = [c \in Classes |-> None]
    /\ resample = FALSE
    /\ last_mid = None
    /\ last_size = <<>>
    /\ missing_seen = FALSE
    /\ work_after_missing = 0

\* degraded_width, degraded_height of the factor r_factor / FUnit(r_width)
ConvertFactor ==
    /\ r_pc = "input"
    /\ r_out' = <<DegradedSize(r_factor, r_width, FUnit(r_width)),
                  DegradedSize(r_factor, r_height, FUnit(r_width))>>
    /\ r_pc' = "done"
    /\ UNCHANGED <<r_factor, r_width, r_height, run_vars, knee_vars, aux_vars>>

ResNext == ConvertFactor

SpecRes == ResInit /\ [][ResNext]_vars

\* ------------------------------------------------------------------------
\* calc_degradation_factor on one pair of resolutions
\* ------------------------------------------------------------------------
\* no run of run_knee_discovery, calculate_knee or the conversion is going on
RunIdle ==
    /\ KneeIdle
    /\ ResIdle
    /\ config \in {cfg \in Configs : cfg.image_size = 8}
    /\ binary = TRUE
    /\ cache_results = TRUE
    /\ curve = [c \in Classes |-> "noise"]
    /\ stale = FALSE
    /\ store = <<>>
    /\ file_exists = FALSE
    /\ results_df = <<>>
    /\ results_class_df = <<>>
    /\ pc = "idle"
    /\ ci = 1
    /\ knee_degradation_factor = None
    /\ new_knee_degradation_factor = None
    /\ old_knee_degradation_factor = None
    /\ new_knee_mAP = None
    /\ old_knee_mAP = None
    /\ iteration = 0
    /\ exit = [c \in Classes |-> "none"]
    /\ calls = [c \in Classes |-> 0]
    /\ knee_events = [c \in Classes |-> 0]
    /\ prior_knee = [c \in Classes |-> None]
    /\ resample = FALSE
    /\ last_mid = None
    /\ last_size = <<>>
    /\ missing_seen = FALSE
    /\ work_after_missing = 0

FactorInit ==
    /\ f_pc = "input"
    /\ f_ow \in 1..MaxDim
    /\ f_oh \in 1..MaxDim
    /\ f_ew \in 1..MaxDim
    /\ f_eh \in 1..MaxDim
    /\ f_out = None
    /\ RunIdle
    /\ DegradeIdle

\* degradation_factor = calc_degradation_factor(orig_res_w, orig_res_h,
\*                                             eff_res_w, eff_res_h)
ApplyFactor ==
    /\ f_pc = "input"
    /\ f_out' = calc_degradation_factor(f_ow, f_oh, f_ew, f_eh)
    /\ f_pc' = "done"
    /\ UNCHANGED <<f_ow, f_oh, f_ew, f_eh, run_vars, knee_vars, res_vars, degrade_vars>>

FactorNext == ApplyFactor

SpecFactor == FactorInit /\ [][FactorNext]_vars

\* ------------------------------------------------------------------------
\* degrade_images: the calls of one run on a baseline directory
\* ------------------------------------------------------------------------
\* os.listdir(val_baseline_dir): the images of the baseline directory
Images == 1..MaxImages

\* an image decodes or raises OSError when opened, or lacks its label file
ImageKinds == {"ok", "corrupt", "no_label"}

\* degraded_image_size: the original size or a lower one
Sizes == {"orig", "low"}

\* what a degraded directory holds of an image: nothing, the degraded image
\* alone, or the degraded image and the label
Contents == {"none", "image", "both"}

degrade_images_KeepFailed(val_image_filenames, kind, degraded, same_size, corrupted_counter) ==
    LET pair(i) == kind[i] # "no_label"
        fresh(i) == degraded[i] = "none"
        failed == {i \in val_image_filenames :
                      pair(i) /\ fresh(i) /\ ~same_size /\ kind[i] = "corrupt"}
        missing == {i \in val_image_filenames : ~pair(i)}
        written == {i \in val_image_filenames : pair(i) /\ fresh(i)} \ failed
    IN [val_image_filename_set |-> val_image_filenames \ missing,
        degraded |-> [i \in DOMAIN degraded |->
                         IF i \in written THEN "both" ELSE degraded[i]],
        num_images |-> Cardinality(val_image_filenames),
        corrupted_counter |-> corrupted_counter + Cardinality(failed),
        failed |-> failed,
        written |-> written]

degrade_images_Regenerate(val_image_filenames, kind, degraded, same_size, corrupted_counter) ==
    LET pair(i) == kind[i] # "no_label"
        fresh(i) == TRUE
        failed == {i \in val_image_filenames :
                      pair(i) /\ fresh(i) /\ ~same_size /\ kind[i] = "corrupt"}
        missing == {i \in val_image_filenames : ~pair(i)}
        written == {i \in val_image_filenames : pair(i) /\ fresh(i)} \ failed
    IN [val_image_filename_set |-> val_image_filenames \ (failed \cup missing),
        degraded |-> [i \in DOMAIN degraded |->
                         IF i \in written THEN "both" ELSE degraded[i]],
        num_images |-> Cardinality(val_image_filenames),
        corrupted_counter |-> corrupted_counter + Cardinality(failed),
        failed |-> failed,
        written |-> written]

degrade_images_CountValid(val_image_filenames, kind, degraded, same_size, corrupted_counter) ==
    LET pair(i) == kind[i] # "no_label"
        fresh(i) == degraded[i] = "none"
        failed == {i \in val_image_filenames :
                      pair(i) /\ fresh(i) /\ ~same_size /\ kind[i] = "corrupt"}
        missing == {i \in val_image_filenames : ~pair(i)}
        written == {i \in val_image_filenames : pair(i) /\ fresh(i)} \ failed
    IN [val_image_filename_set |-> val_image_filenames \ (failed \cup missing),
        degraded |-> [i \in DOMAIN degraded |->
                         IF i \in written THEN "both" ELSE degraded[i]],
        num_images |-> Cardinality(val_image_filenames \ (failed \cup missing)),
        corrupted_counter |-> corrupted_counter + Cardinality(failed),
        failed |-> failed,
        written |-> written]

\* the loop of degrade_images over val_image_filenames; degraded is the
\* content of degraded_dir, same_size is orig_image_size == degraded_image_size
degrade_images(val_image_filenames, kind, degraded, same_size, corrupted_counter) ==
    LET \* os.path.exists(val_image_filename) and os.path.exists(val_label_filename)
        pair(i) == kind[i] # "no_label"
        \* not os.path.exists(val_degraded_image_filename)
        fresh(i) == degraded[i] = "none"
        \* except OSError
        failed == {i \in val_image_filenames :
                      pair(i) /\ fresh(i) /\ ~same_size /\ kind[i] = "corrupt"}
        missing == {i \in val_image_filenames : ~pair(i)}
        \* the image is copied or saved, and the label copied after it
        written == {i \in val_image_filenames : pair(i) /\ fresh(i)} \ failed
    IN [val_image_filename_set |-> val_image_filenames \ (failed \cup missing),
        degraded |-> [i \in DOMAIN degraded |->
                         IF i \in written THEN "both" ELSE degraded[i]],
        num_images |-> Cardinality(val_image_filenames),
        corrupted_counter |-> corrupted_counter + Cardinality(failed),
        failed |-> failed,
        written |-> written]

DegradeInit ==
    /\ d_pc = "run"
    /\ d_kind \in [Images -> ImageKinds]
    /\ d_dir \in [Sizes -> [Images -> Contents]]
    /\ d_none = TRUE
    /\ val_image_filename_set = {}
    /\ d_calls = 0
    /\ d_size = "none"
    /\ d_in = 0
    /\ d_ret = <<0, 0>>
    /\ d_files = {}
    /\ d_failed = {}
    /\ d_counted = [i \in Images |-> 0]
    /\ d_writes = [sz \in Sizes |-> [i \in Images |-> 0]]
    /\ RunIdle
    /\ FactorIdle

\* one call degrade_images(ctxt, orig, size, dir, counter): the sweep passes
\* the counter the call before returned, the refiner passes 0
DegradeCall ==
    /\ d_pc = "run"
    /\ d_calls < MaxCalls
    /\ \E size \in Sizes, counter \in {0, d_ret[2]} :
          LET files == IF d_none THEN Images ELSE val_image_filename_set
              out == degrade_images(files, d_kind, d_dir[size], size = "orig", counter)
          IN /\ d_size' = size
             /\ d_in' = counter
             /\ d_files' = files
             /\ val_image_filename_set' = out.val_image_filename_set
             /\ d_dir' = [d_dir EXCEPT ![size] = out.degraded]
             /\ d_ret' = <<out.num_images, out.corrupted_counter>>
             /\ d_failed' = d_failed \cup out.failed
             /\ d_counted' = [i \in Images |->
                                 d_counted[i] + (IF i \in out.failed THEN 1 ELSE 0)]
             /\ d_writes' = [d_writes EXCEPT ![size] =
                                 [i \in Images |->
                                     @[i] + (IF i \in out.written THEN 1 ELSE 0)]]
    /\ d_none' = FALSE
    /\ d_calls' = d_calls + 1
    /\ UNCHANGED <<d_pc, d_kind, run_vars, knee_vars, res_vars, factor_vars>>

DegradeNext == DegradeCall

SpecDegrade == DegradeInit /\ [][DegradeNext]_vars

\* ------------------------------------------------------------------------
\* Properties
\* ------------------------------------------------------------------------
FlaggedRows(df, c) == {i \in 1..Len(df) : df[i].object_name = c /\ df[i].knee}

\* the class whose knee was marked by the latest step
Marked == pc \in {"class", "save"} /\ ci > 1

JustClass == ClassNames[ci - 1]

\* C1: the refinement loop of a class never runs more than 10 iterations,
\* each of which samples (degrade + evaluate) at most once, so it ends.
C1_IterationCap ==
    /\ iteration <= max_iterations
    /\ \A c \in Classes : calls[c] <= max_iterations
    /\ pc \in {"loop", "mark"} => calls[ClassNames[ci]] <= iteration

C1_Witness ==
    /\ pc = "loop"
    /\ iteration = max_iterations
    /\ calls[ClassNames[ci]] = max_iterations

\* C2: in the table persisted at the end of a run at most one row of every
\* class has the knee flag set.
C2_FlagExclusive ==
    pc = "done" => \A c \in Classes : Cardinality(FlaggedRows(store, c)) <= 1

C2_Witness ==
    /\ pc = "done"
    /\ binary
    /\ \E c \in Classes : calls[c] > 0 /\ Cardinality(FlaggedRows(store, c)) = 1

\* C3 as stated: when the refinement of a class has ended, the row at the
\* last non-null current_factor is flagged, also when the detector returned
\* no knee after the latest sample.
C3_LastNonNullFlagged ==
    (Marked /\ binary) =>
        LET last == IF new_knee_degradation_factor # None
                    THEN new_knee_degradation_factor
                    ELSE old_knee_degradation_factor
        IN last # None =>
              \E i \in FlaggedRows(results_df, JustClass) : RowFactor(results_df[i]) = last

\* C3 amended: when the refinement of a class has ended, the rows flagged
\* for the class are exactly those whose stored factor is within 1e-5
\* (np.isclose) of the final current_factor; when the final current_factor
\* is None no row of the class is flagged.
C3_FinalFactorFlagged ==
    (Marked /\ binary) =>
        \A i \in 1..Len(results_df) :
            results_df[i].object_name = JustClass =>
                (results_df[i].knee <=>
                    /\ new_knee_degradation_factor # None
                    /\ Abs(results_df[i].degradation_factor - new_knee_degradation_factor)
                           * 100000 <= Unit + new_knee_degradation_factor)

C3_Witness ==
    /\ Marked
    /\ binary
    /\ new_knee_degradation_factor = None
    /\ old_knee_degradation_factor # None
    /\ calls[JustClass] > 0
    /\ FlaggedRows(results_df, JustClass) = {}

\* C4 as stated: when the knee factor cannot be located (STUCK) the knee
\* factor held before it, if any, stays the flagged knee of the class.
C4_PriorKept ==
    (Marked /\ binary /\ exit[JustClass] = "stuck" /\ prior_knee[JustClass] # None) =>
        /\ calls[JustClass] = iteration - 1
        /\ \E i \in FlaggedRows(results_df, JustClass) :
              RowFactor(results_df[i]) = prior_knee[JustClass]

\* C4 amended: when the knee factor cannot be located (STUCK) the
\* refinement of the class halts in that iteration without a degrade or
\* evaluate call, and no row of the class is flagged.
C4_StuckNoFlag ==
    (Marked /\ binary /\ exit[JustClass] = "stuck") =>
        /\ calls[JustClass] = iteration - 1
        /\ FlaggedRows(results_df, JustClass) = {}

C4_Witness ==
    /\ Marked
    /\ binary
    /\ exit[JustClass] = "stuck"
    /\ prior_knee[JustClass] # None
    /\ calls[JustClass] > 0

\* C5: once the results file was found missing with no cache, no class is
\* processed any further (no detector, sampler or evaluator call).
C5_HardStop == work_after_missing = 0

C7_NoiseIgnored ==
    k_pc = "done" =>
        /\ FitInput(k_variant) = FitInput(k_rows)
        /\ k_out_variant.x_list = k_out.x_list
        /\ k_out_variant.y_list = k_out.y_list
        /\ k_out_variant.events = k_out.events

C7_Witness ==
    /\ k_pc = "done"
    /\ k_variant # k_rows
    /\ Len(k_out.x_list) > 0
    /\ \E i \in 1..Len(k_variant) : k_variant[i].mAP = noise_floor

\* C8: the i-th metric returned by calculate_knee, and the metric of the
\* i-th knee event, is the metric of the sample at the i-th returned factor.
C8_MetricsCorrespond ==
    k_pc = "done" =>
        \A i \in 1..Len(k_out.x_list) :
            \E j \in 1..Len(k_rows) :
                /\ RowFactor(k_rows[j]) = k_out.x_list[i]
                /\ k_out.y_list[i] = k_rows[j].mAP
                /\ k_out.events[i] = <<k_out.x_list[i], k_rows[j].mAP>>

\* C9 as stated: the sampled resolution is the factor times the original
\* size rounded to the nearest integer, clamped to [1, W] and [1, H].
C9_RoundedToNearest ==
    r_pc = "done" =>
        /\ r_out[1] = Max(1, Min(r_width,
                         RoundHalfEven(r_factor * r_width, FUnit(r_width))))
        /\ r_out[2] = Max(1, Min(r_height,
                         RoundHalfEven(r_factor * r_height, FUnit(r_width))))

\* the value v is x = num / den truncated to an integer and clamped to [1, top]
TruncatedClamped(v, num, den, top) ==
    /\ 1 <= v /\ v <= top
    /\ \/ v * den <= num /\ num < (v + 1) * den
       \/ v = 1 /\ num < den
       \/ v = top /\ num >= top * den

\* C9 amended: the sampled resolution is the factor times the original size
\* truncated to an integer (not rounded), clamped to [1, W] and [1, H].
C9_TruncatedAndClamped ==
    r_pc = "done" =>
        /\ TruncatedClamped(r_out[1], r_factor * r_width, FUnit(r_width), r_width)
        /\ TruncatedClamped(r_out[2], r_factor * r_height, FUnit(r_width), r_height)

C9_Witness ==
    /\ r_pc = "done"
    /\ 2 * ((r_factor * r_width) % FUnit(r_width)) > FUnit(r_width)
    /\ r_factor < FUnit(r_width)
    /\ r_out[1] * FUnit(r_width) < r_factor * r_width
    /\ r_out[1] > 1

\* C10: an iteration whose midpoint is within 1e-4 (np.isclose) of a factor
\* already sampled for the class makes no degrade or evaluate call and ends
\* the refinement, and the knee factor held then is the one flagged.
C10_AlreadySampledHalts ==
    /\ [][(/\ iteration' = iteration + 1
           /\ last_mid' # None
           /\ \E i \in 1..Len(results_class_df) :
                 Abs(results_class_df[i].degradation_factor - last_mid') * 100000
                     <= 10 * Unit + last_mid')
          => (/\ calls' = calls
              /\ pc' = "mark"
              /\ exit'[ClassNames[ci]] = "already")]_vars
    /\ [](Marked /\ binary /\ exit[JustClass] = "already" =>
            /\ new_knee_degradation_factor # None
            /\ FlaggedRows(results_df, JustClass) # {}
            /\ \A i \in FlaggedRows(results_df, JustClass) :
                  Abs(results_df[i].degradation_factor - new_knee_degradation_factor)
                      * 100000 <= Unit + new_knee_degradation_factor)

C10_Witness ==
    /\ Marked
    /\ binary
    /\ exit[JustClass] = "already"
    /\ FlaggedRows(results_df, JustClass) # {}


\* C11: in an iteration after the first in which the knee sample is located
\* and its metric differs from the knee metric of the previous iteration by
\* less than 1e-3, the refinement ends (CONVERGED) without a degrade or
\* evaluate call and the current knee factor is the one flagged; the check
\* never fires in the first iteration, where no previous metric exists.
C11_MetricConverged ==
    /\ [][(/\ iteration' = iteration + 1
           /\ iteration >= 1
           /\ ~(pc' = "mark" /\ exit'[ClassNames[ci]] = "stuck")
           /\ Abs(new_knee_mAP' - old_knee_mAP) < mAP_tolerance)
          => (/\ calls' = calls
              /\ pc' = "mark"
              /\ exit'[ClassNames[ci]] = "converged_mAP"
              /\ new_knee_degradation_factor' = new_knee_degradation_factor)]_vars
    /\ [](pc = "loop" => (iteration = 0 <=> old_knee_mAP = None))
    /\ [](Marked /\ binary /\ exit[JustClass] = "converged_mAP" =>
            /\ iteration >= 2
            /\ calls[JustClass] = iteration - 1
            /\ Abs(new_knee_mAP - old_knee_mAP) < mAP_tolerance
            /\ new_knee_degradation_factor # None
            /\ FlaggedRows(results_df, JustClass) # {}
            /\ \A i \in FlaggedRows(results_df, JustClass) :
                  /\ results_df[i].mAP = new_knee_mAP
                  /\ Abs(results_df[i].degradation_factor - new_knee_degradation_factor)
                        * 100000 <= Unit + new_knee_degradation_factor)

C11_Witness ==
    /\ Marked
    /\ binary
    /\ exit[JustClass] = "converged_mAP"
    /\ iteration >= 2
    /\ new_knee_degradation_factor # prior_knee[JustClass]
    /\ FlaggedRows(results_df, JustClass) # {}


\* C12: when the search algorithm is not 'binary' no class gets a refinement
\* iteration or a degrade or evaluate call after the coarse sweep, and the
\* rows flagged for a class are exactly those at the factor of its primary
\* knee candidate (within 1e-5, np.isclose): none when it has no candidate,
\* and one when the stored factors of the table are those of its resolutions.
C12_NoSearchDirect ==
    ~binary =>
        /\ iteration = 0
        /\ pc # "loop"
        /\ \A c \in Classes : calls[c] = 0 /\ exit[c] \in {"none", "direct"}
        /\ Len(store) = Len(ClassNames) * Len(SweepResolutions(config)) \/ store = <<>>
        /\ Marked =>
              /\ \A i \in 1..Len(results_df) :
                    results_df[i].object_name = JustClass =>
                        (results_df[i].knee <=>
                            /\ knee_degradation_factor # None
                            /\ Abs(results_df[i].degradation_factor - knee_degradation_factor)
                                   * 100000 <= Unit + knee_degradation_factor)
              /\ (/\ knee_degradation_factor # None
                  /\ \A i \in 1..Len(results_df) :
                        results_df[i].degradation_factor = RowFactor(results_df[i])) =>
                    \E i \in FlaggedRows(results_df, JustClass) :
                        RowFactor(results_df[i]) = knee_degradation_factor
        /\ pc = "done" =>
              \A c \in Classes : FlaggedRows(store, c) = FlaggedRows(results_df, c)

C12_Witness ==
    /\ pc = "done"
    /\ ~binary
    /\ \A c \in Classes : exit[c] = "direct" /\ calls[c] = 0
    /\ \E c \in Classes : FlaggedRows(store, c) # {}
    /\ \E c \in Classes : FlaggedRows(store, c) = {}


\* C17: an iteration that locates the knee sample and gets to the choice of
\* a side proposes a midpoint whenever the knee sample has a neighbour; it
\* stops with 'no further refinement possible' only when the knee sample is
\* the only sample of the class.
C17_StopsOnlyWithoutNeighbors ==
    (Marked /\ binary /\ exit[JustClass] = "no_refinement") =>
        /\ last_mid = None
        /\ Len(results_class_df) = 1


\* the rows of the class table next to the row k in the order of the
\* stored factors
LeftOf(t, k) ==
    {i \in 1..Len(t) :
        /\ t[i].degradation_factor < t[k].degradation_factor
        /\ \A j \in 1..Len(t) :
              t[j].degradation_factor < t[k].degradation_factor =>
                  t[j].degradation_factor <= t[i].degradation_factor}

RightOf(t, k) ==
    {i \in 1..Len(t) :
        /\ t[i].degradation_factor > t[k].degradation_factor
        /\ \A j \in 1..Len(t) :
              t[j].degradation_factor > t[k].degradation_factor =>
                  t[j].degradation_factor >= t[i].degradation_factor}

\* C18: when the located knee sample has both neighbours and the iteration
\* proposes a factor, the factor is the arithmetic midpoint of the knee
\* factor and the left neighbour's factor if |knee metric - left metric| >
\* |knee metric - right metric|, and of the knee factor and the right
\* neighbour's factor otherwise (ties included).
C18_BisectLargerDelta ==
    [][(iteration' = iteration + 1 /\ last_mid' # None) =>
          \A k \in 1..Len(results_class_df) :
             \A l \in LeftOf(results_class_df, k) :
                \A r \in RightOf(results_class_df, k) :
                   LET t == results_class_df
                       knee == new_knee_degradation_factor
                   IN Abs(t[k].degradation_factor - knee) * 100000 <= Unit + knee =>
                        IF Abs(t[k].mAP - t[l].mAP) > Abs(t[k].mAP - t[r].mAP)
                        THEN 2 * last_mid' = t[l].degradation_factor + knee
                        ELSE 2 * last_mid' = knee + t[r].degradation_factor]_vars

\* the first iteration bisected to the right on an exact tie
C18_Witness ==
    /\ pc = "loop"
    /\ iteration = 1
    /\ last_mid # None
    /\ last_size # <<>>
    /\ \E l, k, r \in 1..Len(results_class_df) :
          LET t == results_class_df
          IN /\ t[l].degradation_factor < t[k].degradation_factor
             /\ t[k].degradation_factor < t[r].degradation_factor
             /\ t[k].degradation_factor = old_knee_degradation_factor
             /\ \A j \in 1..Len(t) :
                   (/\ t[l].degradation_factor < t[j].degradation_factor
                    /\ t[j].degradation_factor < t[r].degradation_factor) =>
                       j = k \/ t[j].effective_resolution_width = last_size[1]
             /\ Abs(t[k].mAP - t[l].mAP) = Abs(t[k].mAP - t[r].mAP)
             /\ t[k].mAP # t[l].mAP
             /\ 2 * last_mid = t[k].degradation_factor + t[r].degradation_factor


\* C19: the refiner never calls degrade_images and run_eval at an effective
\* (width, height) that has a record for the class in its table.
C19_NeverResamples ==
    /\ ~resample
    /\ (pc = "loop" /\ iteration >= 1 /\ last_size # <<>>) =>
          Cardinality({i \in 1..Len(results_class_df) :
              /\ results_class_df[i].effective_resolution_width = last_size[1]
              /\ results_class_df[i].effective_resolution_height = last_size[2]}) = 1


\* C20: when the knee factor found after a sample is within 1e-2
\* (np.isclose) of the previous knee factor the loop makes no further
\* iteration and no further degrade or evaluate call, and the rows flagged
\* are exactly those at the new knee factor (one, when the stored factors
\* of the table are those of its resolutions); the factor test never ends
\* the loop before the first iteration, where no previous factor exists.
C20_FactorConverged ==
    /\ [][(/\ pc = "loop"
           /\ iteration >= 1
           /\ new_knee_degradation_factor # None
           /\ Abs(new_knee_degradation_factor - old_knee_degradation_factor) * 100000
                  <= desired_tolerance * Unit + Abs(old_knee_degradation_factor))
          => (/\ iteration' = iteration
              /\ calls' = calls
              /\ pc' \in {"class", "save"}
              /\ new_knee_degradation_factor' = new_knee_degradation_factor)]_vars
    /\ [](pc = "loop" /\ iteration = 0 => old_knee_degradation_factor = None)
    /\ [](Marked /\ binary /\ exit[JustClass] = "converged_factor" =>
            /\ iteration >= 1
            /\ calls[JustClass] = iteration
            /\ \A i \in 1..Len(results_df) :
                  results_df[i].object_name = JustClass =>
                      (results_df[i].knee <=>
                          Abs(results_df[i].degradation_factor - new_knee_degradation_factor)
                              * 100000 <= Unit + new_knee_degradation_factor)
            /\ (\A i \in 1..Len(results_df) :
                    results_df[i].degradation_factor = RowFactor(results_df[i])) =>
                  \E i \in FlaggedRows(results_df, JustClass) :
                      RowFactor(results_df[i]) = new_knee_degradation_factor)

\* the loop ended on a knee factor that moved by less than 1e-2
C20_Witness ==
    /\ Marked
    /\ binary
    /\ exit[JustClass] = "converged_factor"
    /\ iteration < max_iterations
    /\ new_knee_degradation_factor # old_knee_degradation_factor
    /\ \E i \in FlaggedRows(results_df, JustClass) :
          RowFactor(results_df[i]) = new_knee_degradation_factor


C14_FailedExcluded ==
    /\ [](d_failed \cap val_image_filename_set = {})
    /\ [](\A i \in DOMAIN d_counted : d_counted[i] <= 1)
    /\ [][d_calls' = d_calls + 1 =>
            /\ d_files' \cap d_failed = {}
            /\ d_ret'[2] = d_in' + Cardinality(d_failed' \ d_failed)
            /\ \A i \in d_files' \ d_failed' :
                  d_kind[i] # "no_label" => d_dir'[d_size'][i] # "none"]_vars

\* a later call, at the same or another size, after a call in which one
\* image failed and another was degraded
C14_Witness ==
    /\ d_calls >= 2
    /\ d_failed # {}
    /\ d_size = "low"
    /\ d_ret[2] = 0
    /\ d_files # {}
    /\ \E i \in d_files : \A sz \in Sizes : d_dir[sz][i] = "both"

\* C15 as stated: the first value degrade_images returns is the number of
\* valid images processed by the call: the images that failed to decode in
\* it and the images dropped for a missing image or label are not counted.
C15_CountsValid ==
    d_calls >= 1 => d_ret[1] = Cardinality(val_image_filename_set)

\* C15 amended: the first value degrade_images returns is the number of
\* images in the working set when the call starts (all images of the
\* baseline directory in the first call), the images that fail or are
\* dropped in the call included.
C15_CountsWorkingSet ==
    [][d_calls' = d_calls + 1 =>
          /\ d_ret'[1] = Cardinality(IF d_none THEN Images ELSE val_image_filename_set)
          /\ d_ret'[1] = Cardinality(val_image_filename_set')
                           + Cardinality(d_files' \ val_image_filename_set')]_vars

\* a call that counted an image it dropped for its label and one that failed
C15_Witness ==
    /\ d_calls = 1
    /\ d_ret[1] = Cardinality(val_image_filename_set) + 2
    /\ d_ret[2] = 1
    /\ \E i \in d_files : d_kind[i] = "no_label"

\* C16: when degrade_images has returned, every image left in the working
\* set has its degraded image and its label in the target directory,
\* whatever the directory held before.
C16_PairsPresent ==
    d_calls >= 1 => \A i \in val_image_filename_set : d_dir[d_size][i] = "both"


\* C21: a degraded image that exists in the target directory is never
\* written again, and a call with the size of the call before it, on the
\* working set that call left, changes nothing in the target directory.
C21_Idempotent ==
    /\ [][d_calls' = d_calls + 1 =>
            /\ \A i \in Images :
                  d_dir[d_size'][i] # "none" =>
                      /\ d_writes'[d_size'][i] = d_writes[d_size'][i]
                      /\ d_dir'[d_size'][i] = d_dir[d_size'][i]
            /\ \A sz \in Sizes \ {d_size'} :
                  d_dir'[sz] = d_dir[sz] /\ d_writes'[sz] = d_writes[sz]
            /\ d_size' = d_size =>
                  /\ d_dir' = d_dir
                  /\ d_writes' = d_writes
                  /\ val_image_filename_set' = val_image_filename_set]_vars
    /\ [](\A sz \in DOMAIN d_writes : \A i \in DOMAIN d_writes[sz] :
            d_writes[sz][i] <= 1)

\* two calls at one size: the first wrote an image, the second did not
C21_Witness ==
    /\ d_calls = 2
    /\ \E i \in val_image_filename_set :
          /\ d_writes[d_size][i] = 1
          /\ d_dir[d_size][i] = "both"
          /\ \A sz \in Sizes \ {d_size} : d_writes[sz][i] = 0 /\ d_dir[sz][i] = "none"
    /\ \E j \in Images : d_writes[d_size][j] = 0 /\ d_dir[d_size][j] = "image"


\* the resolutions of the rows of the class c flagged in the table df
FlaggedRes(df, c) ==
    {<<df[i].effective_resolution_width, df[i].effective_resolution_height>> :
        i \in FlaggedRows(df, c)}

\* C22: while a later class is processed, refinement samples and reloads
\* of the table included, the knee flags of the classes processed before
\* it do not change, and the table persisted at the end holds them.
C22_EarlierFlagsKept ==
    /\ [][\A k \in 1..Len(ClassNames) :
            (k < ci /\ pc \in {"class", "loop", "mark"}) =>
                FlaggedRes(results_df', ClassNames[k])
                    = FlaggedRes(results_df, ClassNames[k])]_vars
    /\ [](pc = "done" =>
            \A c \in Classes : FlaggedRes(store, c) = FlaggedRes(results_df, c))

====
